---- MODULE Spec2Model ----
(***************************************************************************)
(* A model of the evolutionary loop controller of                          *)
(* symbolic_regression/SymbolicRegressor.py: SymbolicRegressor.fit, _fit,  *)
(* drop_duplicates, drop_invalids and first_pareto_front, with the         *)
(* collaborators of symbolic_regression.multiobjective.training            *)
(* (generate_population, get_offspring, create_pareto_front,               *)
(* crowding_distance) and the Program fields they use.                     *)
(*                                                                         *)
(* A Python attribute that may be None is a sequence of length 0 (None) or *)
(* 1 (a value).  A Program is a record of the fields the controller reads  *)
(* and writes; programs are values here, so a history element is a snapshot*)
(* of the program at the time it was appended.                             *)
(***************************************************************************)
EXTENDS Integers, Sequences, FiniteSets, TLC

VARIABLES
    population_size,            \* self.population_size
    fitness_functions,          \* fit(fitness_functions): the minimize flag of each objective
    checkpoint_frequency,       \* self.checkpoint_frequency (checkpoint_file is set iff > 0)
    generation,                 \* self.generation
    population,                 \* self.population
    best_program,               \* self.best_program
    best_programs_history,      \* self.best_programs_history
    first_pareto_front_history, \* self.first_pareto_front_history
    converged_generation,       \* self.converged_generation
    status,                     \* self.status
    elapsed_time,               \* self.elapsed_time, in generation durations
    generations,                \* fit(generations) of the call in progress
    stop_at_convergence,        \* fit(stop_at_convergence) of the call in progress
    offsprings,                 \* _fit's local list of offspring
    pc,                         \* the position of the call in progress, "idle" outside fit()
    outcome,                    \* how the last fit() call ended
    calls,                      \* the number of fit() calls made
    attempts,                   \* the number of generations started
    tracking,                   \* whether this behaviour records selected and produced
    in_progress,                \* history: the generation the call has in progress, None before its first
    selected,                   \* history: the population when the generation in progress began
    produced,                   \* history: the fitness vectors of the valid programs produced so far
    verbose,                    \* fit(verbose) of the run's calls
    fpf_hypervolume_history,    \* self.fpf_hypervolume_history
    optimizer,                  \* the locals of the SGD or ADAM call in progress, None outside one
    evaluation,                 \* what the last BaseFitness.evaluate call did, None before one
    result,                     \* OpsSpec: the lists the last two operations returned
    last_op                     \* OpsSpec: the last two operations applied

vars == <<population_size, fitness_functions, checkpoint_frequency, generation,
          population, best_program, best_programs_history,
          first_pareto_front_history, converged_generation, status,
          elapsed_time, generations, stop_at_convergence, offsprings, pc,
          outcome, calls, attempts, tracking, in_progress, selected, produced,
          verbose, fpf_hypervolume_history, optimizer, evaluation, result,
          last_op>>

(***************************************************************************)
(* Bounds of the model.                                                    *)
(***************************************************************************)
MaxPopulationSize == 2
MaxGenerations == 2
MaxCalls == 2
MaxAttempts == 2
MaxOffspring == 1
MaxFitness == 1
MaxObjectives == 2
MaxProblemSize == 2
MaxLen == 3
MaxHistory == 3

(***************************************************************************)
(* None and optional values.                                               *)
(***************************************************************************)
None == <<>>

Some(v) == <<v>>

\* Python's truth value of an optional integer: None and 0 are false.
TruthyInt(o) == o # None /\ o[1] # 0

\* Python's truth value of an optional list: None and [] are false.
TruthyList(o) == o # None /\ o[1] # <<>>

(***************************************************************************)
(* Programs.                                                               *)
(***************************************************************************)
RECURSIVE Factorial(_)
Factorial(n) == IF n <= 1 THEN 1 ELSE n * Factorial(n - 1)

\* Crowding distances are kept as integers: the distance times CDScale.
CDScale == Factorial(MaxFitness)

\* The crowding distance +infinity: above every finite sum of contributions.
Infinity == MaxObjectives * CDScale + 1

\* rank of a program that no ranking has visited yet.
Unranked == 0

FitnessVectors(n) == [1..n -> 0..MaxFitness]

\* A program as generate_population or get_offspring returns it.
NewProgram(f, v) ==
    [fitness |-> f, is_valid |-> v, _is_duplicated |-> FALSE,
     rank |-> Unranked, crowding_distance |-> 0]

NewPrograms(n) == {NewProgram(f, v) : f \in FitnessVectors(n), v \in BOOLEAN}

\* Every list of exactly n elements of S.
ListsOf(S, n) == [1..n -> S]

\* Every list of at most n elements of S.
ListsUpTo(S, n) == UNION {ListsOf(S, k) : k \in 0..n}

\* Program.is_duplicate: the two fitness vectors are identical.
is_duplicate(p, q) == p.fitness = q.fitness

(***************************************************************************)
(* drop_duplicates and drop_invalids.                                      *)
(***************************************************************************)
\* A pass that compares program index with the next program only; C8 is
\* checked against it.
MarkNext(pop, index) ==
    IF pop[index].is_valid /\ ~pop[index]._is_duplicated
    THEN [j \in 1..Len(pop) |->
            IF j = index + 1 /\ is_duplicate(pop[index], pop[j])
            THEN [pop[j] EXCEPT !._is_duplicated = TRUE]
            ELSE pop[j]]
    ELSE pop

\* One pass of the outer loop: program index marks the later programs it duplicates.
MarkLater(pop, index) ==
    IF pop[index].is_valid /\ ~pop[index]._is_duplicated
    THEN [j \in 1..Len(pop) |->
            IF j > index /\ is_duplicate(pop[index], pop[j])
            THEN [pop[j] EXCEPT !._is_duplicated = TRUE]
            ELSE pop[j]]
    ELSE pop

RECURSIVE MarkFrom(_, _)
MarkFrom(pop, index) ==
    IF index > Len(pop) THEN pop ELSE MarkFrom(MarkLater(pop, index), index + 1)

\* The population after the marking loop of drop_duplicates.
MarkDuplicates(pop) == MarkFrom(pop, 1)

NotDuplicated(p) == p._is_duplicated = FALSE

\* The list drop_duplicates returns.
DropDuplicatesList(pop) == SelectSeq(MarkDuplicates(pop), NotDuplicated)

IsValid(p) == p.is_valid = TRUE

\* The list drop_invalids returns.
DropInvalidsList(pop) == SelectSeq(pop, IsValid)

(***************************************************************************)
(* Pareto ranking (create_pareto_front).                                   *)
(***************************************************************************)
\* a is at least as good as b on objective k.
NotWorse(a, b, k, minimize) ==
    IF minimize[k] THEN a.fitness[k] <= b.fitness[k] ELSE a.fitness[k] >= b.fitness[k]

Better(a, b, k, minimize) ==
    IF minimize[k] THEN a.fitness[k] < b.fitness[k] ELSE a.fitness[k] > b.fitness[k]

Dominates(a, b, minimize) ==
    /\ \A k \in DOMAIN minimize : NotWorse(a, b, k, minimize)
    /\ \E k \in DOMAIN minimize : Better(a, b, k, minimize)

\* The indices of remaining that no earlier remaining program dominates; C9 is
\* checked against it.
NonDominatedByEarlier(pop, remaining, minimize) ==
    {i \in remaining :
        \A j \in remaining : j < i => ~Dominates(pop[j], pop[i], minimize)}

\* The indices of remaining that no remaining program dominates.
NonDominated(pop, remaining, minimize) ==
    {i \in remaining : \A j \in remaining : ~Dominates(pop[j], pop[i], minimize)}

RECURSIVE Peel(_, _, _, _)
Peel(pop, remaining, r, minimize) ==
    IF remaining = {} THEN pop
    ELSE LET front == NonDominated(pop, remaining, minimize)
             ranked == [i \in 1..Len(pop) |->
                          IF i \in front THEN [pop[i] EXCEPT !.rank = r] ELSE pop[i]]
         IN Peel(ranked, remaining \ front, r + 1, minimize)

\* The population with every program's rank set, 1 the non-dominated front.
create_pareto_front(pop, minimize) == Peel(pop, 1..Len(pop), 1, minimize)

\* SymbolicRegressor.first_pareto_front
RankOne(p) == p.rank = 1

first_pareto_front(pop) == SelectSeq(pop, RankOne)

(***************************************************************************)
(* Stable sorting (list.sort).                                             *)
(***************************************************************************)
\* The place of element i when a list is stably sorted by ascending key.
SortedPlace(key, i) ==
    Cardinality({j \in DOMAIN key : key[j] < key[i]})
    + Cardinality({j \in DOMAIN key : j < i /\ key[j] = key[i]}) + 1

\* s sorted by ascending key, elements of equal key in their order in s.
StableSort(s, key) ==
    [place \in 1..Len(s) |-> s[CHOOSE i \in 1..Len(s) : SortedPlace(key, i) = place]]

(***************************************************************************)
(* Crowding distance (crowding_distance).                                  *)
(***************************************************************************)
\* The indices of the programs that share the rank of program i.
RankGroup(pop, i) == {j \in 1..Len(pop) : pop[j].rank = pop[i].rank}

\* The place of program i when its rank group is stably sorted by objective k.
PlaceInGroup(pop, k, i) ==
    Cardinality({j \in RankGroup(pop, i) : pop[j].fitness[k] < pop[i].fitness[k]})
    + Cardinality({j \in RankGroup(pop, i) :
                      j < i /\ pop[j].fitness[k] = pop[i].fitness[k]}) + 1

\* The fitness on objective k of the program at place t of the rank group of i.
FitnessAtPlace(pop, k, i, t) ==
    pop[CHOOSE j \in RankGroup(pop, i) : PlaceInGroup(pop, k, j) = t].fitness[k]

AddDistance(a, b) == IF a = Infinity \/ b = Infinity THEN Infinity ELSE a + b

\* What objective k adds to the distance of program i within its rank group.
Contribution(pop, k, i) ==
    LET m == Cardinality(RankGroup(pop, i))
        t == PlaceInGroup(pop, k, i)
        lo == FitnessAtPlace(pop, k, i, 1)
        hi == FitnessAtPlace(pop, k, i, m)
    IN IF t = 1 \/ t = m THEN Infinity
       ELSE IF hi = lo THEN 0
       ELSE ((FitnessAtPlace(pop, k, i, t + 1) - FitnessAtPlace(pop, k, i, t - 1))
                * CDScale) \div (hi - lo)

RECURSIVE Distance(_, _, _)
Distance(pop, k, i) ==
    IF k = 0 THEN 0
    ELSE AddDistance(Distance(pop, k - 1, i), Contribution(pop, k, i))

\* The population with every program's crowding_distance set within its rank group.
crowding_distance(pop, nobj) ==
    [i \in 1..Len(pop) |->
        [pop[i] EXCEPT !.crowding_distance =
            Distance(pop, nobj, i)]]

(***************************************************************************)
(* Selection (the two sorts and the truncation of _fit).                   *)
(***************************************************************************)
\* A sort by ascending crowding distance; C19 is checked against it.
SortByCrowdingAscending(pop) ==
    StableSort(pop, [i \in 1..Len(pop) |-> pop[i].crowding_distance])

\* key=lambda p: p.crowding_distance, reverse=True
SortByCrowding(pop) ==
    StableSort(pop, [i \in 1..Len(pop) |-> 0 - pop[i].crowding_distance])

SortByRank(pop) == StableSort(pop, [i \in 1..Len(pop) |-> pop[i].rank])

\* A truncation that keeps one program too many; C6 is checked against it.
TruncateOneMore(pop, n) ==
    SubSeq(pop, 1, IF Len(pop) < n + 1 THEN Len(pop) ELSE n + 1)

\* self.population[:n]
Truncate(pop, n) == SubSeq(pop, 1, IF Len(pop) < n THEN Len(pop) ELSE n)


\* How many programs the refill constructs.
MissingElements(pop, n) == 2 * n - Len(pop)

(***************************************************************************)
(* The controller.                                                         *)
(***************************************************************************)
Pop == population[1]

Gen == generation[1]

NObj == Len(fitness_functions)

ValidFitness(ps) == {ps[i].fitness : i \in {j \in 1..Len(ps) : ps[j].is_valid}}

\* The minimize flags of one to MaxObjectives objectives: the first is minimized,
\* the second maximized, and so on in turn.
FitnessConfigs == {[k \in 1..n |-> k % 2 = 1] : n \in 1..MaxObjectives}

\* The population sizes and objectives of the runs explored: population_size
\* times the number of objectives is at most MaxProblemSize.
Configurations ==
    {c \in (1..MaxPopulationSize) \X FitnessConfigs : c[1] * Len(c[2]) <= MaxProblemSize}

\* checkpoint_frequency of the runs explored: generation 1 writes no checkpoint,
\* generation 2 writes one.
CheckpointFrequencies == {2}

Budgets == 1..MaxGenerations

config == <<population_size, fitness_functions, checkpoint_frequency, tracking,
            verbose>>

params == <<generations, stop_at_convergence>>

run == <<generation, population, best_program, best_programs_history,
         first_pareto_front_history, converged_generation, elapsed_time>>

ops == <<result, last_op>>

report == <<fpf_hypervolume_history>>

numeric == <<optimizer, evaluation>>

history == <<in_progress, selected, produced>>

\* fit() ends: its parameters are gone.
Ended(how) ==
    /\ pc' = "idle"
    /\ outcome' = how
    /\ generations' = 0
    /\ stop_at_convergence' = TRUE

\* The call goes on to its next step.
Goto(next) ==
    /\ pc' = next
    /\ UNCHANGED <<outcome, generations, stop_at_convergence>>

\* A history variable's next value, in the behaviours that record it.
Tracked(old, new) == IF tracking THEN new ELSE old

\* SymbolicRegressor.__init__
Constructed ==
    /\ \E c \in Configurations : population_size = c[1] /\ fitness_functions = c[2]
    /\ checkpoint_frequency \in CheckpointFrequencies
    /\ generation = None
    /\ population = None
    /\ best_program = None
    /\ best_programs_history = <<>>
    /\ first_pareto_front_history = <<>>
    /\ converged_generation = None
    /\ status = "Uninitialized"
    /\ elapsed_time = 0
    /\ generations = 0
    /\ stop_at_convergence = TRUE
    /\ offsprings = <<>>
    /\ pc = "idle"
    /\ outcome = "none"
    /\ calls = 0
    /\ attempts = 0
    /\ in_progress = None
    /\ selected = <<>>
    /\ produced = {}
    /\ fpf_hypervolume_history = <<>>
    /\ optimizer = None
    /\ evaluation = None
    /\ result = <<<<>>, <<>>>>
    /\ last_op = <<"none", "none">>

Init == Constructed /\ tracking = FALSE /\ verbose = 0

\* The behaviours of one fit() call, with the history variables recorded.
CallInit == Constructed /\ tracking = TRUE /\ verbose = 0

\* fit(): the generation counter is set if it is None or 0, then _fit is entered.
Fit(g, stop) ==
    /\ pc = "idle"
    /\ calls < MaxCalls
    /\ generation' = IF TruthyInt(generation) THEN generation ELSE Some(0)
    /\ generations' = g
    /\ stop_at_convergence' = stop
    /\ pc' = "population"
    /\ outcome' = "running"
    /\ calls' = calls + 1
    /\ in_progress' = None
    /\ UNCHANGED <<config, population, best_program, best_programs_history,
                   first_pareto_front_history, converged_generation, status,
                   elapsed_time, offsprings, attempts, selected, produced, ops, report, numeric>>

\* _fit: "if not self.population".
PopulationCheck ==
    /\ pc = "population"
    /\ IF ~TruthyList(population)
       THEN status' = "Generating population" /\ Goto("generating_population")
       ELSE status' = status /\ Goto("guard")
    /\ UNCHANGED <<config, run, offsprings, calls, attempts, history, ops, report, numeric>>

\* _fit: the initial population, population_size programs built in parallel.
GeneratePopulation ==
    /\ pc = "generating_population"
    /\ \E ps \in ListsOf(NewPrograms(NObj), population_size) :
          /\ population' = Some(ps)
          /\ produced' = Tracked(produced, produced \cup ValidFitness(ps))
    /\ Goto("guard")
    /\ UNCHANGED <<config, generation, best_program, best_programs_history,
                   first_pareto_front_history, converged_generation, status,
                   elapsed_time, offsprings, calls, attempts, in_progress,
                   selected, ops, report, numeric>>

\* A guard that lets a controller at its budget run one more generation; C5 is
\* checked against it.
LoopGuardStrict ==
    /\ pc = "guard"
    /\ IF generations > 0 /\ Gen > generations
       THEN /\ status' = "Terminated: generations completed"
            /\ Ended("returned")
            /\ UNCHANGED <<generation, attempts, in_progress, selected>>
       ELSE /\ attempts < MaxAttempts
            /\ attempts' = attempts + 1
            /\ generation' = Some(Gen + 1)
            /\ in_progress' = Some(Gen + 1)
            /\ selected' = Tracked(selected, Pop)
            /\ status' = "Generating offspring"
            /\ Goto("offspring")
    /\ UNCHANGED <<config, population, best_program, best_programs_history,
                   first_pareto_front_history, converged_generation, elapsed_time,
                   offsprings, calls, produced, ops, report, numeric>>

\* _fit: the budget guard at the top of the loop, then the increment of the counter.
LoopGuard ==
    /\ pc = "guard"
    /\ IF generations > 0 /\ Gen >= generations
       THEN /\ status' = "Terminated: generations completed"
            /\ Ended("returned")
            /\ UNCHANGED <<generation, attempts, in_progress, selected>>
       ELSE /\ attempts < MaxAttempts
            /\ attempts' = attempts + 1
            /\ generation' = Some(Gen + 1)
            /\ in_progress' = Some(Gen + 1)
            /\ selected' = Tracked(selected, Pop)
            /\ status' = "Generating offspring"
            /\ Goto("offspring")
    /\ UNCHANGED <<config, population, best_program, best_programs_history,
                   first_pareto_front_history, converged_generation, elapsed_time,
                   offsprings, calls, produced, ops, report, numeric>>

\* _fit: the offspring the executor returns, list(set(...)) of them.
GenerateOffspring ==
    /\ pc = "offspring"
    /\ \E os \in ListsUpTo(NewPrograms(NObj), MaxOffspring) :
          /\ offsprings' = os
          /\ produced' = Tracked(produced, produced \cup ValidFitness(os))
    /\ Goto("merge")
    /\ UNCHANGED <<config, run, status, calls, attempts, in_progress, selected, ops, report, numeric>>

\* _fit: self.population += offsprings (offsprings is not read again).
Merge ==
    /\ pc = "merge"
    /\ population' = Some(Pop \o offsprings)
    /\ offsprings' = <<>>
    /\ Goto("drop_duplicates")
    /\ UNCHANGED <<config, generation, best_program, best_programs_history,
                   first_pareto_front_history, converged_generation, status,
                   elapsed_time, calls, attempts, history, ops, report, numeric>>

\* _fit: self.drop_duplicates(inplace=True)
DropDuplicates ==
    /\ pc = "drop_duplicates"
    /\ population' = Some(DropDuplicatesList(Pop))
    /\ Goto("drop_invalids")
    /\ UNCHANGED <<config, generation, best_program, best_programs_history,
                   first_pareto_front_history, converged_generation, status,
                   elapsed_time, offsprings, calls, attempts, history, ops, report, numeric>>

\* _fit: self.drop_invalids(inplace=True)
DropInvalids ==
    /\ pc = "drop_invalids"
    /\ population' = Some(DropInvalidsList(Pop))
    /\ Goto("refill")
    /\ UNCHANGED <<config, generation, best_program, best_programs_history,
                   first_pareto_front_history, converged_generation, status,
                   elapsed_time, offsprings, calls, attempts, history, ops, report, numeric>>

\* _fit: "if len(self.population) < self.population_size * 2".
RefillCheck ==
    /\ pc = "refill"
    /\ IF Len(Pop) < population_size * 2
       THEN status' = "Refilling population" /\ Goto("refilling")
       ELSE status' = status /\ Goto("pareto")
    /\ UNCHANGED <<config, run, offsprings, calls, attempts, history, ops, report, numeric>>

\* _fit: self.population += refill, missing_elements new programs.
Refill ==
    /\ pc = "refilling"
    /\ \E rs \in ListsOf(NewPrograms(NObj), MissingElements(Pop, population_size)) :
          /\ population' = Some(Pop \o rs)
          /\ produced' = Tracked(produced, produced \cup ValidFitness(rs))
    /\ Goto("pareto")
    /\ UNCHANGED <<config, generation, best_program, best_programs_history,
                   first_pareto_front_history, converged_generation, status,
                   elapsed_time, offsprings, calls, attempts, in_progress,
                   selected, ops, report, numeric>>

\* _fit: create_pareto_front(self.population)
CreateParetoFront ==
    /\ pc = "pareto"
    /\ status' = "Creating pareto front"
    /\ population' = Some(create_pareto_front(Pop, fitness_functions))
    /\ Goto("crowding")
    /\ UNCHANGED <<config, generation, best_program, best_programs_history,
                   first_pareto_front_history, converged_generation, elapsed_time,
                   offsprings, calls, attempts, history, ops, report, numeric>>

\* _fit: crowding_distance(self.population)
CrowdingDistance ==
    /\ pc = "crowding"
    /\ status' = "Creating crowding distance"
    /\ population' = Some(crowding_distance(Pop, NObj))
    /\ Goto("sort_crowding")
    /\ UNCHANGED <<config, generation, best_program, best_programs_history,
                   first_pareto_front_history, converged_generation, elapsed_time,
                   offsprings, calls, attempts, history, ops, report, numeric>>

\* _fit: self.population.sort(key=lambda p: p.crowding_distance, reverse=True)
SortCrowding ==
    /\ pc = "sort_crowding"
    /\ population' = Some(SortByCrowding(Pop))
    /\ Goto("sort_rank")
    /\ UNCHANGED <<config, generation, best_program, best_programs_history,
                   first_pareto_front_history, converged_generation, status,
                   elapsed_time, offsprings, calls, attempts, history, ops, report, numeric>>

\* _fit: self.population.sort(key=lambda p: p.rank, reverse=False)
SortRank ==
    /\ pc = "sort_rank"
    /\ population' = Some(SortByRank(Pop))
    /\ Goto("truncate")
    /\ UNCHANGED <<config, generation, best_program, best_programs_history,
                   first_pareto_front_history, converged_generation, status,
                   elapsed_time, offsprings, calls, attempts, history, ops, report, numeric>>

\* _fit: self.population = self.population[:self.population_size]
TruncatePopulation ==
    /\ pc = "truncate"
    /\ population' = Some(Truncate(Pop, population_size))
    /\ Goto("record")
    /\ UNCHANGED <<config, generation, best_program, best_programs_history,
                   first_pareto_front_history, converged_generation, status,
                   elapsed_time, offsprings, calls, attempts, history, ops, report, numeric>>

\* SymbolicRegressor.hypervolume: every read computes the hypervolume of the first
\* Pareto front and appends it to fpf_hypervolume_history (0 when the
\* computation fails).  pygmo is outside the repository: an element of the
\* history is kept as the number of points it was computed from.
HypervolumeRead(pop) ==
    Append(fpf_hypervolume_history, Len(first_pareto_front(pop)))

\* _fit: best_program and the two histories; the hypervolume is read only for
\* the report printed when verbose > 1.
Record ==
    /\ pc = "record"
    /\ best_program' = Some(Pop[1])
    /\ best_programs_history' = Append(best_programs_history, Pop[1])
    /\ first_pareto_front_history' =
          Append(first_pareto_front_history, first_pareto_front(Pop))
    /\ fpf_hypervolume_history' =
          IF verbose > 1 THEN HypervolumeRead(Pop) ELSE fpf_hypervolume_history
    /\ Goto("convergence")
    /\ UNCHANGED <<config, generation, population, converged_generation, status,
                   elapsed_time, offsprings, calls, attempts, history, ops, numeric>>

\* _fit: "if self.best_program.converged", converged being the program's answer.
ConvergenceCheck(converged) ==
    /\ pc = "convergence"
    /\ IF converged
       THEN /\ converged_generation' =
                  IF TruthyInt(converged_generation)
                  THEN converged_generation ELSE generation
            /\ IF stop_at_convergence
               THEN status' = "Terminated: converged" /\ Ended("returned")
               ELSE status' = status /\ Goto("checkpoint")
       ELSE /\ converged_generation' = converged_generation
            /\ status' = status
            /\ Goto("checkpoint")
    /\ UNCHANGED <<config, generation, population, best_program,
                   best_programs_history, first_pareto_front_history, elapsed_time,
                   offsprings, calls, attempts, history, ops, report, numeric>>

\* "self.checkpoint_file and self.checkpoint_frequency > 0 and
\* self.generation % self.checkpoint_frequency == 0"
CheckpointDue ==
    checkpoint_frequency > 0 /\ Gen % checkpoint_frequency = 0

\* What save_model may do: write the file, or raise.
SaveResults == {"saved", "FileNotFoundError", "OtherError"}

\* _fit: the periodic checkpoint; only FileNotFoundError is caught.
Checkpoint(saved) ==
    /\ pc = "checkpoint"
    /\ IF CheckpointDue /\ saved = "OtherError"
       THEN Ended("raised")
       ELSE Goto("budget")
    /\ UNCHANGED <<config, run, status, offsprings, calls, attempts, history, ops, report, numeric>>

\* A budget check that returns one generation early; C3 is checked against it.
BudgetCheckEarly ==
    /\ pc = "budget"
    /\ IF generations > 0 /\ Gen + 1 >= generations
       THEN /\ status' = "Terminated: generations completed"
            /\ Ended("returned")
            /\ elapsed_time' = elapsed_time
       ELSE /\ elapsed_time' = elapsed_time + 1
            /\ status' = status
            /\ Goto("guard")
    /\ UNCHANGED <<config, generation, population, best_program,
                   best_programs_history, first_pareto_front_history,
                   converged_generation, offsprings, calls, attempts, history, ops, report, numeric>>

\* _fit: the budget check at the bottom of the loop, then the elapsed time.
BudgetCheck ==
    /\ pc = "budget"
    /\ IF generations > 0 /\ Gen = generations
       THEN /\ status' = "Terminated: generations completed"
            /\ Ended("returned")
            /\ elapsed_time' = elapsed_time
       ELSE /\ elapsed_time' = elapsed_time + 1
            /\ status' = status
            /\ Goto("guard")
    /\ UNCHANGED <<config, generation, population, best_program,
                   best_programs_history, first_pareto_front_history,
                   converged_generation, offsprings, calls, attempts, history, ops, report, numeric>>

\* The positions of a fit() call, all of them inside its try block.
InCall ==
    {"population", "generating_population", "guard", "offspring", "merge",
     "drop_duplicates", "drop_invalids", "refill", "refilling", "pareto",
     "crowding", "sort_crowding", "sort_rank", "truncate", "record",
     "convergence", "checkpoint", "budget"}

\* An interrupt handler that leaves the counter as it is; C1 is checked against it.
KeyboardInterruptKeepsCounter ==
    /\ pc \in InCall
    /\ generation' = generation
    /\ status' = "Interrupted by KeyboardInterrupt"
    /\ Ended("interrupted")
    /\ UNCHANGED <<config, population, best_program, best_programs_history,
                   first_pareto_front_history, converged_generation, elapsed_time,
                   offsprings, calls, attempts, history, ops, report, numeric>>

\* fit(): "except KeyboardInterrupt", wherever _fit is.
KeyboardInterrupt ==
    /\ pc \in InCall
    /\ generation' = Some(Gen - 1)
    /\ status' = "Interrupted by KeyboardInterrupt"
    /\ Ended("interrupted")
    /\ UNCHANGED <<config, population, best_program, best_programs_history,
                   first_pareto_front_history, converged_generation, elapsed_time,
                   offsprings, calls, attempts, history, ops, report, numeric>>

\* The positions at which _fit waits for its workers.
CollaboratorCalls == {"generating_population", "offspring", "refilling"}

\* fit(): an exception other than KeyboardInterrupt (the timeout of executor.map,
\* a failure of a worker) is not caught: fit() ends by raising it.
CollaboratorFailure ==
    /\ pc \in CollaboratorCalls
    /\ Ended("raised")
    /\ UNCHANGED <<config, run, status, offsprings, calls, attempts, history, ops, report, numeric>>

Next ==
    \/ \E g \in Budgets, stop \in BOOLEAN : Fit(g, stop)
    \/ PopulationCheck
    \/ GeneratePopulation
    \/ LoopGuard
    \/ GenerateOffspring
    \/ Merge
    \/ DropDuplicates
    \/ DropInvalids
    \/ RefillCheck
    \/ Refill
    \/ CreateParetoFront
    \/ CrowdingDistance
    \/ SortCrowding
    \/ SortRank
    \/ TruncatePopulation
    \/ Record
    \/ \E converged \in BOOLEAN : ConvergenceCheck(converged)
    \/ \E saved \in SaveResults : Checkpoint(saved)
    \/ BudgetCheck
    \/ KeyboardInterrupt
    \/ CollaboratorFailure

Spec == Init /\ [][Next]_vars

FirstFit == \E g \in Budgets, stop \in BOOLEAN : calls = 0 /\ Fit(g, stop)

\* One fit() call on a new controller.
CallNext ==
    \/ FirstFit
    \/ PopulationCheck
    \/ GeneratePopulation
    \/ LoopGuard
    \/ GenerateOffspring
    \/ Merge
    \/ DropDuplicates
    \/ DropInvalids
    \/ RefillCheck
    \/ Refill
    \/ CreateParetoFront
    \/ CrowdingDistance
    \/ SortCrowding
    \/ SortRank
    \/ TruncatePopulation
    \/ Record
    \/ \E converged \in BOOLEAN : ConvergenceCheck(converged)
    \/ \E saved \in SaveResults : Checkpoint(saved)
    \/ BudgetCheck
    \/ KeyboardInterrupt
    \/ CollaboratorFailure

CallSpec == CallInit /\ [][CallNext]_vars

\* One fit() call on a new controller that no interrupt and no failure of a
\* collaborator ends; the interpreter keeps executing it.
RunNext ==
    \/ FirstFit
    \/ PopulationCheck
    \/ GeneratePopulation
    \/ LoopGuard
    \/ GenerateOffspring
    \/ Merge
    \/ DropDuplicates
    \/ DropInvalids
    \/ RefillCheck
    \/ Refill
    \/ CreateParetoFront
    \/ CrowdingDistance
    \/ SortCrowding
    \/ SortRank
    \/ TruncatePopulation
    \/ Record
    \/ \E converged \in BOOLEAN : ConvergenceCheck(converged)
    \/ \E saved \in SaveResults \ {"OtherError"} : Checkpoint(saved)
    \/ BudgetCheck

RunSpec == CallInit /\ [][RunNext]_vars /\ WF_vars(RunNext)

(***************************************************************************)
(* One uninterrupted fit() call made with verbose 0 or 2, and a caller that *)
(* reads the hypervolume property once the call has returned.              *)
(***************************************************************************)
Verbosities == {0, 2}

ReportInit == Constructed /\ tracking = FALSE /\ verbose \in Verbosities

\* A read of self.hypervolume from outside the loop.
ReadHypervolume ==
    /\ pc = "idle"
    /\ TruthyList(population)
    /\ first_pareto_front(Pop) # <<>>
    /\ Len(fpf_hypervolume_history) < MaxHistory
    /\ fpf_hypervolume_history' = HypervolumeRead(Pop)
    /\ UNCHANGED <<config, run, status, offsprings, calls, attempts, history, ops,
                   generations, stop_at_convergence, pc, outcome, numeric>>

ReportNext ==
    \/ RunNext
    \/ ReadHypervolume

ReportSpec == ReportInit /\ [][ReportNext]_vars

(***************************************************************************)
(* The operations of the population registry applied on their own, to      *)
(* every population of at most MaxLen new programs.                        *)
(***************************************************************************)
OpsInit ==
    /\ Constructed
    /\ tracking = FALSE
    /\ verbose = 0

\* self.population = ps, by the caller.
OpsSetPopulation ==
    /\ pc = "idle"
    /\ \E ps \in ListsUpTo(NewPrograms(NObj), MaxLen) : population' = Some(ps)
    /\ pc' = "ops"
    /\ UNCHANGED <<config, generation, best_program, best_programs_history,
                   first_pareto_front_history, converged_generation, status,
                   elapsed_time, generations, stop_at_convergence, offsprings,
                   outcome, calls, attempts, history, ops, report, numeric>>

Returned(list, op) ==
    /\ result' = <<result[2], list>>
    /\ last_op' = <<last_op[2], op>>

\* drop_duplicates(inplace)
OpsDropDuplicates(inplace) ==
    /\ pc = "ops"
    /\ population' =
          IF inplace THEN Some(DropDuplicatesList(Pop)) ELSE Some(MarkDuplicates(Pop))
    /\ Returned(DropDuplicatesList(Pop), "drop_duplicates")
    /\ UNCHANGED <<config, generation, best_program, best_programs_history,
                   first_pareto_front_history, converged_generation, status,
                   elapsed_time, generations, stop_at_convergence, offsprings, pc,
                   outcome, calls, attempts, history, report, numeric>>

\* drop_invalids(inplace)
OpsDropInvalids(inplace) ==
    /\ pc = "ops"
    /\ population' = IF inplace THEN Some(DropInvalidsList(Pop)) ELSE population
    /\ Returned(DropInvalidsList(Pop), "drop_invalids")
    /\ UNCHANGED <<config, generation, best_program, best_programs_history,
                   first_pareto_front_history, converged_generation, status,
                   elapsed_time, generations, stop_at_convergence, offsprings, pc,
                   outcome, calls, attempts, history, report, numeric>>

\* create_pareto_front(self.population), then self.first_pareto_front
OpsParetoFront ==
    /\ pc = "ops"
    /\ population' = Some(create_pareto_front(Pop, fitness_functions))
    /\ Returned(first_pareto_front(create_pareto_front(Pop, fitness_functions)),
                "first_pareto_front")
    /\ UNCHANGED <<config, generation, best_program, best_programs_history,
                   first_pareto_front_history, converged_generation, status,
                   elapsed_time, generations, stop_at_convergence, offsprings, pc,
                   outcome, calls, attempts, history, report, numeric>>

OpsNext ==
    \/ OpsSetPopulation
    \/ \E inplace \in BOOLEAN : OpsDropDuplicates(inplace)
    \/ \E inplace \in BOOLEAN : OpsDropInvalids(inplace)
    \/ OpsParetoFront

OpsSpec == OpsInit /\ [][OpsNext]_vars

(***************************************************************************)
(* Floating-point values of multiobjective/optimization.py: NaN, or a      *)
(* number kept in fixed point, Unit standing for 1.0.  Every operation      *)
(* returns NaN when an operand is NaN.                                      *)
(***************************************************************************)
Unit == 100

NaN == <<>>

Real(v) == <<v>>

IsNaN(a) == a = NaN

\* Integer division rounding toward zero.
Quot(x, y) == IF x >= 0 THEN x \div y ELSE 0 - ((0 - x) \div y)

FAdd(a, b) == IF IsNaN(a) \/ IsNaN(b) THEN NaN ELSE Real(a[1] + b[1])

FSub(a, b) == IF IsNaN(a) \/ IsNaN(b) THEN NaN ELSE Real(a[1] - b[1])

FMul(a, b) == IF IsNaN(a) \/ IsNaN(b) THEN NaN ELSE Real(Quot(a[1] * b[1], Unit))

FDiv(a, b) == IF IsNaN(a) \/ IsNaN(b) THEN NaN ELSE Real(Quot(a[1] * Unit, b[1]))

\* np.sign
FSign(a) ==
    IF IsNaN(a) THEN NaN
    ELSE IF a[1] > 0 THEN Real(Unit) ELSE IF a[1] < 0 THEN Real(0 - Unit) ELSE Real(0)

\* The norm of a vector of one component.
FAbs(a) == IF IsNaN(a) THEN NaN ELSE IF a[1] < 0 THEN Real(0 - a[1]) ELSE a

\* The largest integer between lo and hi whose square is at most a.
RECURSIVE RootBetween(_, _, _)
RootBetween(a, lo, hi) ==
    IF lo = hi THEN lo
    ELSE IF ((lo + hi + 1) \div 2) * ((lo + hi + 1) \div 2) <= a
         THEN RootBetween(a, (lo + hi + 1) \div 2, hi)
         ELSE RootBetween(a, lo, (lo + hi + 1) \div 2 - 1)

\* np.sqrt of a value that is not negative.
FSqrt(a) ==
    IF IsNaN(a) THEN NaN ELSE Real(RootBetween(a[1] * Unit, 0, a[1] + Unit))

\* np.power(a, 2), kept to the precision of Unit * Unit, and np.sqrt of a
\* value of that precision.
Square(a) == IF IsNaN(a) THEN NaN ELSE Real(a[1] * a[1])

RootOfSquare(a) == IF IsNaN(a) THEN NaN ELSE Real(RootBetween(a[1], 0, a[1] \div Unit + Unit))

\* np.power(beta, t), t >= 1
RECURSIVE FPower(_, _)
FPower(a, t) == IF t = 0 THEN Real(Unit) ELSE FMul(a, FPower(a, t - 1))

RECURSIVE FSum(_)
FSum(s) == IF s = <<>> THEN 0 ELSE s[1][1] + FSum(Tail(s))

\* np.nanmean: the mean of the values that are not NaN, NaN when there is none.
NanMean(s) ==
    LET numbers == SelectSeq(s, LAMBDA a : ~IsNaN(a))
    IN IF numbers = <<>> THEN NaN ELSE Real(Quot(FSum(numbers), Len(numbers)))

(***************************************************************************)
(* SGD and ADAM (multiobjective/optimization.py) on a valid program of one  *)
(* constant, c0 + x, with task 'regression:wmse' and no weights column.     *)
(***************************************************************************)
\* constants_optimization_conf.get('l1_param', 0), .get('l2_param', 0)
l1_param == 0

l2_param == 0

\* constants_optimization_conf['epsilon'], the smallest positive value.
epsilon == Real(1)

\* pyf_prog: the value of the program c0 + x.
Predict(x, c) == FAdd(c, x)

\* pyf_grad: the derivative of the program by c0.
ProgramGradient == Real(Unit)

\* np.array_split(rows, n, 0)[i - 1]
array_split(rows, n, i) ==
    LET size == Len(rows) \div n + (IF i <= Len(rows) % n THEN 1 ELSE 0)
        before == (i - 1) * (Len(rows) \div n)
                    + (IF i - 1 <= Len(rows) % n THEN i - 1 ELSE Len(rows) % n)
    IN SubSeq(rows, before + 1, before + size)

\* y_pred - y_batch[i], row by row.
Residuals(batch, c) ==
    [k \in 1..Len(batch) |-> FSub(Predict(batch[k].x, c), batch[k].y)]

\* av_loss = np.nanmean(w_batch[i] * (y_pred - y_batch[i])**2), w = 1
AverageLoss(batch, c) ==
    NanMean([k \in 1..Len(batch) |->
                FMul(Residuals(batch, c)[k], Residuals(batch, c)[k])])

\* av_grad = np.nanmean(2 * w_batch[i] * (y_pred - y_batch[i]) * g), w = 1
AverageGradient(batch, c) ==
    NanMean([k \in 1..Len(batch) |->
                FMul(FMul(Real(2 * Unit), Residuals(batch, c)[k]), ProgramGradient)])

\* "if gradient_clip and (norm_grad > 1.)": the gradient over its norm.
Clip(gradient_clip, g) ==
    IF gradient_clip /\ ~IsNaN(g) /\ FAbs(g)[1] > Unit THEN FDiv(g, FAbs(g)) ELSE g

\* The regularisation terms of the update.
Regularisation(lr, c) ==
    FAdd(FMul(FMul(Real(2 * Unit), lr), FMul(Real(l2_param), c)),
         FMul(lr, FMul(Real(l1_param), FSign(c))))

\* ADAM's first moment and its bias correction.
Momentum(beta_1, m, g, t) ==
    LET moment == FAdd(FMul(beta_1, m), FMul(FSub(Real(Unit), beta_1), g))
    IN [m |-> moment,
        m_hat |-> FDiv(moment, FSub(Real(Unit), FPower(beta_1, t)))]

\* ADAM's second moment and its bias correction, to the precision of a square.
Velocity(beta_2, v, g, t) ==
    LET moment == FAdd(FMul(beta_2, v), FMul(FSub(Real(Unit), beta_2), Square(g)))
    IN [v |-> moment,
        v_hat |-> FDiv(moment, FSub(Real(Unit), FPower(beta_2, t)))]

\* SGD: learning_rate * av_grad
SGDStep(lr, g) == FMul(lr, g)

\* ADAM's step without its denominator.
AdamStepPlain(lr, m_hat, v_hat) == FMul(lr, m_hat)

\* ADAM: learning_rate * m_hat / (np.sqrt(v_hat) + epsilon)
AdamStep(lr, m_hat, v_hat) ==
    FMul(lr, FDiv(m_hat, FAdd(RootOfSquare(v_hat), epsilon)))

MaxRows == 2

MaxEpochs == 2

\* The inputs of the calls explored.
LearningRates == {Real(Unit \div 2)}

BatchSizes == 1..(MaxRows + 1)

EpochCounts == 0..MaxEpochs

Betas == {Real(0), Real(Unit \div 2)}

DataValues == {NaN, Real(0), Real(Unit)}

Targets == {Real(0), Real(2 * Unit)}

Rows == [x : DataValues, y : Targets]

InitialConstants == {Real(0), Real(Unit \div 4)}

\* What np.random.normal(0.0, var, shape) may return.
Redraws == {Real(0), Real(Unit)}

Optimizers == {"SGD", "ADAM"}

\* The call: its configuration, the setup up to the batches, and the locals of
\* the loop.  np.array_split raises ValueError when n_batches is 0.
OptimizerCall(algo, lr, batch_size, epochs, clip, beta, rows, c) ==
    [algo |-> algo, learning_rate |-> lr, batch_size |-> batch_size,
     epochs |-> epochs, gradient_clip |-> clip, beta_1 |-> beta, beta_2 |-> beta,
     rows |-> rows, initial |-> c,
     n_batches |-> Len(rows) \div batch_size,
     constants |-> c, m |-> Real(0), v |-> Real(0), t |-> 1, var |-> 0,
     epoch |-> 0, batch |-> 1, log |-> <<>>, loss |-> <<>>,
     av_loss |-> Real(0), av_grad |-> Real(0), before |-> c,
     pc |-> IF Len(rows) \div batch_size = 0 THEN "raised" ELSE "loop"]

\* SGD(...) or ADAM(...) is called.
OptimizerStart ==
    /\ optimizer = None
    /\ evaluation = None
    /\ \E algo \in Optimizers, lr \in LearningRates, batch_size \in BatchSizes,
          epochs \in EpochCounts, clip \in BOOLEAN, beta \in Betas,
          rows \in UNION {ListsOf(Rows, n) : n \in 1..MaxRows},
          c \in InitialConstants :
          /\ algo = "SGD" => beta = Real(0)
          /\ optimizer' = Some(OptimizerCall(algo, lr, batch_size, epochs, clip,
                                             beta, rows, c))
    /\ UNCHANGED <<config, run, status, params, offsprings, pc, outcome, calls,
                   attempts, history, ops, report, evaluation>>

\* One pass of the inner loop: the loss and gradient of batch i, the recovery
\* when the loss is NaN, the clip and the update; after the last batch of an
\* epoch, log.append(list(constants)) and loss.append(av_loss).
OptimizerBatch ==
    /\ optimizer # None
    /\ optimizer[1].pc = "loop"
    /\ optimizer[1].epoch < optimizer[1].epochs
    /\ LET o == optimizer[1]
           batch == array_split(o.rows, o.n_batches, o.batch)
           av_loss == AverageLoss(batch, o.constants)
           gradient == AverageGradient(batch, o.constants)
       IN \E drawn \in Redraws :
             LET recovered == IF IsNaN(av_loss) THEN drawn ELSE o.constants
                 var == IF IsNaN(av_loss) THEN o.var + Unit \div 5 ELSE o.var
                 av_grad == Clip(o.gradient_clip, gradient)
                 mom == Momentum(o.beta_1, o.m, av_grad, o.t)
                 vel == Velocity(o.beta_2, o.v, av_grad, o.t)
                 step == IF o.algo = "SGD"
                         THEN SGDStep(o.learning_rate, av_grad)
                         ELSE AdamStep(o.learning_rate, mom.m_hat, vel.v_hat)
                 updated == FSub(recovered,
                                 FAdd(step, Regularisation(o.learning_rate, recovered)))
                 last == o.batch = o.n_batches
             IN /\ ~IsNaN(av_loss) => drawn = Real(0)
                /\ optimizer' = Some(
                      [o EXCEPT !.constants = updated,
                                !.before = recovered,
                                !.var = var,
                                !.av_loss = av_loss,
                                !.av_grad = av_grad,
                                !.m = IF o.algo = "ADAM" THEN mom.m ELSE o.m,
                                !.v = IF o.algo = "ADAM" THEN vel.v ELSE o.v,
                                !.t = IF o.algo = "ADAM" THEN o.t + 1 ELSE o.t,
                                !.batch = IF last THEN 1 ELSE o.batch + 1,
                                !.epoch = IF last THEN o.epoch + 1 ELSE o.epoch,
                                !.log = IF last THEN Append(o.log, updated) ELSE o.log,
                                !.loss = IF last THEN Append(o.loss, av_loss) ELSE o.loss])
    /\ UNCHANGED <<config, run, status, params, offsprings, pc, outcome, calls,
                   attempts, history, ops, report, evaluation>>

\* return constants, loss, log
OptimizerReturn ==
    /\ optimizer # None
    /\ optimizer[1].pc = "loop"
    /\ optimizer[1].epoch = optimizer[1].epochs
    /\ optimizer' = Some([optimizer[1] EXCEPT !.pc = "done"])
    /\ UNCHANGED <<config, run, status, params, offsprings, pc, outcome, calls,
                   attempts, history, ops, report, evaluation>>

(***************************************************************************)
(* evaluate() of the fitness functions of multiobjective/fitness/           *)
(* Regression.py, without a weights column and with a target of 1.0 on      *)
(* every row.  The predictions are an array of floats, or reducing them     *)
(* raises an error.                                                         *)
(***************************************************************************)
ErrorMetrics == {"WeightedMeanSquaredError", "WeightedMeanAbsoluteError",
                 "WeightedRelativeRootMeanSquaredError"}

ConstraintMetrics == {"NotConstant", "ValueRange"}

Errors == {"TypeError", "ValueError", "AttributeError"}

Predictions == UNION {ListsOf(DataValues, n) : n \in 1..MaxRows}

\* data[self.target]
Target == Real(Unit)

\* NotConstant's epsilon, ValueRange's lower_bound and upper_bound.
Thresholds == [epsilon : {Real(Unit \div 10)}, lower_bound : {Real(Unit \div 2)},
               upper_bound : {Real(Unit)}]

\* What evaluate() does: it returns a value or it raises the error it met.
Returns(value) == [outcome |-> "returned", value |-> value]

Raises(error) == [outcome |-> "raised", value |-> NaN]

\* np.inf, written as the quotient 1 / 0.
Inf == <<1, 0>>

\* np.mean, np.std: NaN when an entry is NaN.
Mean(s) == IF \E k \in 1..Len(s) : IsNaN(s[k]) THEN NaN ELSE NanMean(s)

Std(s) ==
    FSqrt(Mean([k \in 1..Len(s) |->
                   FMul(FSub(s[k], Mean(s)), FSub(s[k], Mean(s)))]))

\* np.max([0, a])
MaxWithZero(a) == IF IsNaN(a) THEN NaN ELSE IF a[1] > 0 THEN a ELSE Real(0)

\* np.where(a >= 0, a, 0): a comparison with NaN is false.
WhereNotNegative(a) == IF ~IsNaN(a) /\ a[1] >= 0 THEN a ELSE Real(0)

\* ((pred - data[self.target])**2).mean(): pandas' mean skips NaN.
SquaredError(pred) ==
    NanMean([k \in 1..Len(pred) |->
                FMul(FSub(pred[k], Target), FSub(pred[k], Target))])

\* np.abs(pred - data[self.target]).mean()
AbsoluteError(pred) ==
    NanMean([k \in 1..Len(pred) |-> FAbs(FSub(pred[k], Target))])

\* np.sqrt(((pred - data[self.target])**2).mean()) * 100. / y_av
RelativeError(pred) ==
    FDiv(FMul(FSqrt(SquaredError(pred)), Real(100 * Unit)), Target)

\* The try of WeightedMeanSquaredError, WeightedMeanAbsoluteError and
\* WeightedRelativeRootMeanSquaredError: "except TypeError", "except ValueError".
EvaluateError(metric, pred, error) ==
    IF error \in {"TypeError", "ValueError"} THEN Returns(Inf)
    ELSE IF error # "none" THEN Raises(error)
    ELSE IF metric = "WeightedMeanSquaredError" THEN Returns(SquaredError(pred))
    ELSE IF metric = "WeightedMeanAbsoluteError" THEN Returns(AbsoluteError(pred))
    ELSE Returns(RelativeError(pred))

\* NotConstant.evaluate
EvaluateNotConstant(th, pred, error) ==
    IF error = "AttributeError" THEN Returns(NaN)
    ELSE IF error = "TypeError" THEN Returns(th.epsilon)
    ELSE IF error # "none" THEN Raises(error)
    ELSE Returns(MaxWithZero(FSub(th.epsilon, Std(pred))))

\* ValueRange.evaluate: no error is caught.
EvaluateValueRange(th, pred, error) ==
    IF error # "none" THEN Raises(error)
    ELSE Returns(
            FAdd(Mean([k \in 1..Len(pred) |->
                          WhereNotNegative(FSub(pred[k], th.upper_bound))]),
                 Mean([k \in 1..Len(pred) |->
                          WhereNotNegative(FSub(th.lower_bound, pred[k]))])))

\* evaluate(program, data) of one metric.
Evaluate ==
    /\ optimizer = None
    /\ evaluation = None
    /\ \E metric \in ErrorMetrics \cup ConstraintMetrics, th \in Thresholds,
          pred \in Predictions, error \in Errors \cup {"none"} :
          evaluation' = Some(
             [metric |-> metric, pred |-> pred, error |-> error] @@
             (IF metric \in ErrorMetrics THEN EvaluateError(metric, pred, error)
              ELSE IF metric = "NotConstant" THEN EvaluateNotConstant(th, pred, error)
              ELSE EvaluateValueRange(th, pred, error)))
    /\ UNCHANGED <<config, run, status, params, offsprings, pc, outcome, calls,
                   attempts, history, ops, report, optimizer>>

\* The optimizers and the fitness evaluation of a constructed regressor.
NumericNext == OptimizerStart \/ OptimizerBatch \/ OptimizerReturn \/ Evaluate

NumericSpec == Init /\ [][NumericNext]_vars

(***************************************************************************)
(* Properties.                                                             *)
(***************************************************************************)
TerminalStatuses ==
    {"Terminated: generations completed", "Terminated: converged",
     "Interrupted by KeyboardInterrupt"}

\* The call has ended, by returning or by raising.
FitEnded == pc = "idle" /\ outcome \in {"returned", "interrupted", "raised"}

\* A KeyboardInterrupt ended the call while a generation was in progress.
InterruptedInGeneration ==
    pc = "idle" /\ outcome = "interrupted" /\ in_progress # None

\* The selection of the generation in progress is done and nothing has touched
\* the population since.
GenerationCompleted ==
    \/ pc \in {"record", "convergence", "checkpoint", "budget"}
    \/ pc = "guard" /\ in_progress # None
    \/ pc = "idle" /\ outcome = "returned" /\ in_progress # None

\* As GenerationCompleted, with best_program and the histories recorded.
GenerationRecorded == GenerationCompleted /\ pc # "record"

\* C1: a KeyboardInterrupt that reaches fit() while generation g is in progress
\* makes fit() return with generation = g - 1 and status "Interrupted by
\* KeyboardInterrupt".
C1_InterruptRollsBackCounter ==
    InterruptedInGeneration =>
        /\ generation = Some(in_progress[1] - 1)
        /\ status = "Interrupted by KeyboardInterrupt"

C1_Witness ==
    /\ InterruptedInGeneration
    /\ in_progress = Some(2)
    /\ generation = Some(1)

\* C2 (as claimed): after an interrupt during generation g the population is the
\* one generation g began with, the survivors of generation g - 1.
C2_InterruptKeepsPopulation ==
    InterruptedInGeneration => population = Some(selected)

\* C3: an uninterrupted fit() call on a new controller that meets no failure
\* returns, and unless it stops for convergence it returns with
\* generation = generations, status "Terminated: generations completed" and
\* population_size programs.
C3_FitTerminates ==
    /\ (pc # "idle") ~> (pc = "idle" /\ outcome = "returned")
    /\ [][(pc # "idle" /\ pc' = "idle") =>
            /\ outcome' = "returned"
            /\ \/ status' = "Terminated: converged"
               \/ /\ status' = "Terminated: generations completed"
                  /\ generation' = Some(generations)
                  /\ Len(population'[1]) = population_size]_vars

C3_Witness ==
    /\ pc = "idle"
    /\ outcome = "returned"
    /\ status = "Terminated: generations completed"
    /\ generation = Some(2)
    /\ population_size = 2
    /\ Len(Pop) = 2

SingleMinimized == NObj = 1 /\ fitness_functions[1]

\* C4 (as claimed): with one minimized objective, after every completed
\* generation best_program is a valid program whose fitness is the lowest of the
\* valid programs produced so far, and the best fitness never increases from one
\* generation to the next.
C4_BestIsLowestProduced ==
    (SingleMinimized /\ GenerationRecorded) =>
        /\ best_program[1].is_valid
        /\ best_program[1].fitness \in produced
        /\ \A f \in produced : best_program[1].fitness[1] <= f[1]
        /\ \A i \in 1..(Len(best_programs_history) - 1) :
              best_programs_history[i + 1].fitness[1]
                  <= best_programs_history[i].fitness[1]

\* The call in progress was made with a budget the controller has reached and a
\* population in place.
BudgetReached ==
    /\ TruthyList(population)
    /\ generations > 0
    /\ generation # None
    /\ Gen >= generations

\* C5: fit() with a budget generations > 0 on a controller that holds a population
\* and has generation >= generations changes nothing but status, which it sets to
\* "Terminated: generations completed": no step of such a call that returns
\* changes generation, population, best_program, a history, converged_generation
\* or elapsed_time, and so the next such call finds the same state.
C5_BudgetReachedIsNoOp ==
    [][/\ (pc = "idle" /\ pc' = "population" /\ TruthyList(population)
              /\ TruthyInt(generation) /\ Gen >= generations')
          => UNCHANGED <<run, status>>
       /\ (pc = "population" /\ BudgetReached /\ outcome' # "interrupted")
          => (pc' = "guard" /\ UNCHANGED <<run, status>>)
       /\ (pc = "guard" /\ BudgetReached /\ outcome' # "interrupted")
          => /\ pc' = "idle"
             /\ outcome' = "returned"
             /\ status' = "Terminated: generations completed"
             /\ UNCHANGED run]_vars

C5_Witness ==
    /\ calls = 2
    /\ pc = "idle"
    /\ outcome = "returned"
    /\ in_progress = None
    /\ status = "Terminated: generations completed"
    /\ TruthyList(population)
    /\ Len(best_programs_history) = 2

\* C6: the sort-and-truncate step is handed at least population_size programs, and
\* after every completed generation the population holds exactly population_size.
C6_ExactlyPopulationSize ==
    /\ pc \in {"pareto", "crowding", "sort_crowding", "sort_rank", "truncate"} => Len(Pop) >= population_size
    /\ GenerationCompleted => Len(Pop) = population_size

C6_Witness ==
    /\ pc = "record"
    /\ attempts = 2
    /\ population_size = 2
    /\ Len(Pop) = 2
    /\ status = "Creating crowding distance"

\* C7 (as claimed): after every completed generation no survivor, best_program
\* included, has is_valid = False.
C7_SurvivorsValid ==
    GenerationCompleted => \A i \in 1..Len(Pop) : Pop[i].is_valid

\* C8: drop_duplicates applied twice in a row, in place or not, returns the
\* second time the list it returned the first time.
C8_DropDuplicatesIdempotent ==
    last_op = <<"drop_duplicates", "drop_duplicates">> => result[2] = result[1]

C8_Witness ==
    /\ last_op = <<"drop_duplicates", "drop_duplicates">>
    /\ Len(result[2]) >= 2
    /\ Len(result[2]) < Len(Pop)
    /\ \E i \in 1..Len(Pop) : Pop[i]._is_duplicated

JustRanked == pc = "ops" /\ last_op[2] = "first_pareto_front"

\* Every program of the first Pareto front is dominated by no program.
FrontNonDominated ==
    \A t \in 1..Len(result[2]), j \in 1..Len(Pop) :
        ~Dominates(Pop[j], result[2][t], fitness_functions)

\* C9 (as claimed): after the ranking no program of rank r is dominated by a
\* program of rank r' < r, and no program dominates a program of rank 1.
C9_NoDominationFromLowerRank ==
    JustRanked =>
        /\ \A i, j \in 1..Len(Pop) :
              Pop[j].rank < Pop[i].rank
                  => ~Dominates(Pop[j], Pop[i], fitness_functions)
        /\ FrontNonDominated

\* C9 (amended): after the ranking no program of rank r is dominated by a program
\* of rank r' >= r, and no program dominates a program of rank 1.
C9_NoDominationFromHigherRank ==
    JustRanked =>
        /\ \A i, j \in 1..Len(Pop) :
              Pop[j].rank >= Pop[i].rank
                  => ~Dominates(Pop[j], Pop[i], fitness_functions)
        /\ FrontNonDominated

C9_Witness ==
    /\ JustRanked
    /\ Len(result[2]) = 2
    /\ result[2][1].fitness # result[2][2].fitness
    /\ \E i \in 1..Len(Pop) : Pop[i].rank = 2

\* C10 (as claimed): whenever a fit() call has ended, by returning or by raising,
\* status is one of the three terminal statuses.
C10_StatusTerminalWhenEnded ==
    FitEnded => status \in TerminalStatuses

\* C11 (as claimed): whenever fit() has returned, normally or after an interrupt,
\* best_programs_history and first_pareto_front_history each hold as many
\* elements as the generation counter says.
C11_HistoriesMatchGeneration ==
    (pc = "idle" /\ outcome \in {"returned", "interrupted"}) =>
        /\ Len(best_programs_history) = Gen
        /\ Len(first_pareto_front_history) = Gen

\* C13 (as claimed): whatever save_model does, the checkpoint step does not end
\* fit(): unless an interrupt arrives the loop goes on to the budget check with
\* generation, population and histories as they were.
C13_CheckpointFailureSwallowed ==
    [][(pc = "checkpoint" /\ outcome' # "interrupted")
          => (pc' = "budget" /\ outcome' = "running" /\ UNCHANGED run)]_vars

\* C14 (as claimed): converged_generation, once set, never changes; a generation
\* whose best program has converged sets it, if it was not set, to the current
\* generation; and with stop_at_convergence that generation ends fit() with
\* status "Terminated: converged", the loop going on otherwise.
C14_ConvergedGenerationSetOnce ==
    [][/\ converged_generation # None => converged_generation' = converged_generation
       /\ (pc = "convergence" /\ converged_generation' # converged_generation)
             => converged_generation' = generation
       /\ (pc = "convergence" /\ status' = "Terminated: converged")
             => (stop_at_convergence /\ pc' = "idle" /\ outcome' = "returned"
                   /\ converged_generation' # None)
       /\ (pc = "convergence" /\ pc' = "checkpoint" /\ converged_generation' # converged_generation)
             => ~stop_at_convergence]_vars

\* C20 (as claimed): when an uninterrupted fit() call returns, elapsed_time holds
\* the duration of every generation the call completed, the one it returned in
\* included: one duration for each element of best_programs_history.
C20_ElapsedTimeCountsEveryGeneration ==
    (pc = "idle" /\ outcome = "returned") =>
        elapsed_time = Len(best_programs_history)

\* p comes before q in the order of selection, or ties with it: lower rank, or
\* the same rank and a crowding distance at least as large.
NotAfter(p, q) ==
    \/ p.rank < q.rank
    \/ p.rank = q.rank /\ p.crowding_distance >= q.crowding_distance

\* C19: after every completed generation the survivors are in ascending rank and,
\* within a rank, in descending crowding distance, and the first has rank 1; and
\* the truncation discards no program of a lower rank than a survivor, nor one
\* of the rank of a survivor with a strictly larger crowding distance.
C19_SurvivorsOrderedByRankThenCrowding ==
    /\ [](GenerationCompleted =>
            /\ \A i, j \in 1..Len(Pop) : i < j => NotAfter(Pop[i], Pop[j])
            /\ Pop[1].rank = 1
            /\ GenerationRecorded => best_program[1].rank = 1)
    /\ [][(pc = "truncate" /\ pc' = "record") =>
            /\ population'[1] = SubSeq(Pop, 1, population_size)
            /\ \A d \in (population_size + 1)..Len(Pop), s \in 1..population_size :
                  NotAfter(Pop[s], Pop[d])]_vars

C19_Witness ==
    /\ pc = "truncate"
    /\ status = "Creating crowding distance"
    /\ population_size = 2
    /\ Len(Pop) = 4
    /\ Pop[2].rank = Pop[3].rank
    /\ Pop[2].crowding_distance > Pop[3].crowding_distance
    /\ Pop[3].rank < Pop[4].rank

\* C12 (as claimed): fpf_hypervolume_history holds one element for each completed
\* generation, whatever the verbosity and however often the hypervolume is read
\* from outside the loop.
C12_HypervolumeHistoryPerGeneration ==
    (GenerationRecorded \/ (pc = "idle" /\ outcome = "returned")) =>
        Len(fpf_hypervolume_history) = Len(best_programs_history)

\* The optimizer has returned, or the call has raised.
OptimizerDone == optimizer # None /\ optimizer[1].pc = "done"

OptimizerRaised == optimizer # None /\ optimizer[1].pc = "raised"

\* C15: when the average loss of a batch was NaN, SGD and ADAM recover: the
\* constants they return and every entry of the per-epoch trace of the
\* constants are free of NaN.
C15_NoNaNConstantsAfterRecovery ==
    (OptimizerDone /\ optimizer[1].var > 0) =>
        /\ ~IsNaN(optimizer[1].constants)
        /\ \A k \in 1..Len(optimizer[1].log) : ~IsNaN(optimizer[1].log[k])

\* Two numbers within a tenth of each other.
Close(a, b) == ~IsNaN(a) /\ ~IsNaN(b) /\ 10 * FAbs(FSub(a, b))[1] <= Unit

\* ADAM with beta_1 = beta_2 = 0 has just made a step on a gradient that is a
\* number.
AdamWithoutMemory ==
    /\ optimizer # None
    /\ optimizer[1].algo = "ADAM"
    /\ optimizer[1].beta_1 = Real(0)
    /\ optimizer[1].beta_2 = Real(0)
    /\ optimizer[1].t > 1
    /\ ~IsNaN(optimizer[1].av_grad)

\* What the last step took from the constants.
LastStep == FSub(optimizer[1].before, optimizer[1].constants)

\* C16 as stated: with beta_1 = beta_2 = 0 and l1 = l2 = 0, one ADAM step
\* changes the constants by learning_rate * gradient, as one SGD step does,
\* within tolerance.
C16_AdamStepEqualsGradientStep ==
    AdamWithoutMemory =>
        Close(LastStep, SGDStep(optimizer[1].learning_rate, optimizer[1].av_grad))

\* C16 as amended: with beta_1 = beta_2 = 0 and l1 = l2 = 0, one ADAM step
\* changes the constants by learning_rate * gradient / (|gradient| + epsilon),
\* whatever the steps before it, within tolerance: a step of at most
\* learning_rate against the sign of the gradient.
C16_AdamStepIsNormalisedGradient ==
    AdamWithoutMemory =>
        /\ Close(LastStep,
                 FMul(optimizer[1].learning_rate,
                      FDiv(optimizer[1].av_grad,
                           FAdd(FAbs(optimizer[1].av_grad), epsilon))))
        /\ FAbs(LastStep)[1] <= optimizer[1].learning_rate[1]
        /\ LastStep[1] * optimizer[1].av_grad[1] >= 0

\* A second ADAM step without memory, on an unclipped gradient larger than 1.
C16_Witness ==
    /\ AdamWithoutMemory
    /\ optimizer[1].t > 2
    /\ ~optimizer[1].gradient_clip
    /\ FAbs(optimizer[1].av_grad)[1] > Unit
    /\ ~Close(LastStep, SGDStep(optimizer[1].learning_rate, optimizer[1].av_grad))

\* The gradient of the single batch is exactly zero at the initial constants.
ZeroGradient ==
    AverageGradient(optimizer[1].rows, optimizer[1].initial) = Real(0)

\* C17: on a valid program with a constant, SGD and ADAM with epochs = 0, or
\* with batch_size >= the number of rows when the gradient of that batch is
\* exactly zero, return without error, and the constants they return are the
\* initial ones.
C17_DegenerateCallReturnsInitialConstants ==
    (/\ optimizer # None
     /\ \/ optimizer[1].epochs = 0
        \/ optimizer[1].batch_size >= Len(optimizer[1].rows) /\ ZeroGradient) =>
        /\ ~OptimizerRaised
        /\ OptimizerDone => optimizer[1].constants = optimizer[1].initial

\* The part of C17 that the code keeps: whenever the batches can be formed, a
\* call with epochs = 0 or with a zero gradient on its single batch returns the
\* initial constants.
DegenerateCallWithBatches ==
    (/\ OptimizerDone
     /\ \/ optimizer[1].epochs = 0
        \/ optimizer[1].n_batches = 1 /\ ZeroGradient) =>
        optimizer[1].constants = optimizer[1].initial

\* evaluate() has been called.
Evaluated == evaluation # None

\* C18: evaluate() of every metric of Regression.py never raises and never
\* returns NaN: when reducing the predictions meets a type or domain error, an
\* error metric returns +infinity and a constraint metric returns a violation
\* magnitude that is not negative.
C18_EvaluateNeverRaisesNorReturnsNaN ==
    Evaluated =>
        /\ evaluation[1].outcome = "returned"
        /\ evaluation[1].value # NaN
        /\ (evaluation[1].error # "none" /\ evaluation[1].metric \in ErrorMetrics) =>
              evaluation[1].value = Inf
        /\ (evaluation[1].error # "none" /\ evaluation[1].metric \in ConstraintMetrics) =>
              evaluation[1].value[1] >= 0

\* The part of C18 that the code keeps: a TypeError or a ValueError met by an
\* error metric gives +infinity, and on predictions that are all numbers every
\* metric returns a number that is not negative.
EvaluateOfNumbers ==
    Evaluated =>
        /\ (evaluation[1].error \in {"TypeError", "ValueError"}
               /\ evaluation[1].metric \in ErrorMetrics) =>
              evaluation[1] = [metric |-> evaluation[1].metric,
                               pred |-> evaluation[1].pred,
                               error |-> evaluation[1].error] @@ Returns(Inf)
        /\ (evaluation[1].error = "none"
               /\ \A k \in 1..Len(evaluation[1].pred) : ~IsNaN(evaluation[1].pred[k])) =>
              /\ evaluation[1].outcome = "returned"
              /\ evaluation[1].value # NaN
              /\ evaluation[1].value[1] >= 0

\* C21: across fit() calls with interruptions at any point, the generation
\* counter is never negative; when a call has ended it is not behind the number
\* of generations whose selection step has completed, of which the histories
\* hold one entry for each recorded; and no generation begins once the budget
\* of the call has been met by the selection steps performed.
C21_CounterCountsSelectionSteps ==
    /\ [](generation # None => generation[1] >= 0)
    /\ []((pc = "idle" /\ outcome \in {"returned", "interrupted"}) =>
             generation[1] >= Len(best_programs_history))
    /\ [][(pc = "guard" /\ pc' = "offspring") =>
             Len(best_programs_history) < generations]_vars

====
